---- MODULE Spec2Model ----
(***************************************************************************)
(* Model of scripts/generate_typescript_protocol.py: the script that       *)
(* renders the protocol descriptor (typeinfos, three event dispatch        *)
(* tables, eight type-id constants) as TypeScript source, either printed   *)
(* to standard output or written to protocol.ts.                           *)
(*                                                                         *)
(* Text is a sequence of lines.  A line is a sequence of tokens: the fixed *)
(* fragments of the script's templates are single tokens, everything that  *)
(* comes from the descriptor (names, digits, the repr of a value) is one   *)
(* token per character.                                                    *)
(***************************************************************************)
EXTENDS Integers, Sequences, FiniteSets, TLC

VARIABLES
    typeinfos,            \* module global: sequence of catalog entries
    game_event_types,     \* module global: dict, as its items() in iteration order
    message_event_types,  \* module global: dict, as its items() in iteration order
    tracker_event_types,  \* module global: dict, as its items() in iteration order
    constants,            \* module globals: the eight *_typeid integers
    unbound,              \* names of the module globals that have no binding
    argv,                 \* sys.argv[1] of the running process
    pc,                   \* position of the running process
    i,                    \* entries consumed by the loop being executed
    stdout,               \* lines the running process has printed
    typescript_content,   \* local of generate_typescript_protocol_file
    err,                  \* exception that ended the process, or "none"
    disk,                 \* protocol.ts in the working directory, or Absent
    disk0,                \* protocol.ts as it was when the process started
    lastOut,              \* document of the last completed run of each mode
    runs                  \* processes started so far

descVars == <<typeinfos, game_event_types, message_event_types,
              tracker_event_types, constants, unbound>>
vars == <<typeinfos, game_event_types, message_event_types,
          tracker_event_types, constants, unbound, argv, pc, i, stdout,
          typescript_content, err, disk, disk0, lastOut, runs>>

\* ------------------------------------------------------------------ bounds
MaxCatalog == 2
MaxTable == 2
MaxRuns == 2

\* ------------------------------------------------------------- characters
SQ == "'"
DQ == "\""
BS == "\\"

\* protocol.ts: absent, or present with its lines
Absent == [present |-> FALSE, lines |-> <<>>]
File(ls) == [present |-> TRUE, lines |-> ls]

\* the recorded document of an earlier run: none yet, or its lines
None == [have |-> FALSE, lines |-> <<>>]
Some(ls) == [have |-> TRUE, lines |-> ls]

Modes == {"", "--generate-file"}

\* ------------------------------------------------------------ Python side
DigitChar == <<"0", "1", "2", "3", "4", "5", "6", "7", "8", "9">>

RECURSIVE Digits(_)
Digits(n) ==
    IF n < 10 THEN <<DigitChar[n + 1]>>
    ELSE Digits(n \div 10) \o <<DigitChar[(n % 10) + 1]>>

\* str(n) of a Python int
IntToStr(n) == IF n < 0 THEN <<"-">> \o Digits(0 - n) ELSE Digits(n)

Chars(s) == {s[k] : k \in DOMAIN s}

RECURSIVE Concat(_)
Concat(ss) == IF ss = <<>> THEN <<>> ELSE Head(ss) \o Concat(Tail(ss))

\* repr(s) of a Python str: the quote is " only when s holds ' and no ";
\* the chosen quote and the backslash are escaped with a backslash.
PyReprStr(s) ==
    LET q == IF SQ \in Chars(s) /\ DQ \notin Chars(s) THEN DQ ELSE SQ
        esc(c) == IF c = q \/ c = BS THEN <<BS, c>> ELSE <<c>>
    IN  <<q>> \o Concat([k \in DOMAIN s |-> esc(s[k])]) \o <<q>>

\* Python values: int, str, list, tuple
PyInt(n) == [k |-> "int", v |-> n]
PyStrV(s) == [k |-> "str", v |-> s]
PyList(xs) == [k |-> "list", v |-> xs]
PyTuple(xs) == [k |-> "tuple", v |-> xs]

RECURSIVE PyRepr(_)
PyRepr(x) ==
    LET items(xs) ==
            Concat([k \in DOMAIN xs |->
                      (IF k = 1 THEN <<>> ELSE <<",", " ">>) \o PyRepr(xs[k])])
    IN  CASE x.k = "int" -> IntToStr(x.v)
          [] x.k = "str" -> PyReprStr(x.v)
          [] x.k = "list" -> <<"[">> \o items(x.v) \o <<"]">>
          [] x.k = "tuple" ->
                <<"(">> \o items(x.v)
                        \o (IF Len(x.v) = 1 THEN <<",">> ELSE <<>>) \o <<")">>

\* str(x): a str is itself, everything else is its repr
PyStr(x) == IF x.k = "str" THEN x.v ELSE PyRepr(x)

\* s.replace(old, new) for one-character old and new
Replace(s, old, new) == [k \in DOMAIN s |-> IF s[k] = old THEN new ELSE s[k]]

\* -------------------------------------------------------------- templates
Line(t) == <<t>>
Blank == <<>>

\* print() calls of lines 50-61
ConsoleHeader ==
    << Line("// Generated TypeScript protocol definitions"),
       Line("// Auto-generated from protocol typeinfos"),
       Blank,
       Line("export interface ProtocolTypeInfo {"),
       Line("  type: string;"),
       Line("  data: any[];"),
       Line("}"),
       Blank,
       Line("export const protocolTypeinfos: ProtocolTypeInfo[] = [") >>

\* the string literal of lines 107-122
FileHeader ==
    << Line("// Auto-generated TypeScript protocol definitions"),
       Line("// Generated from StarCraft II protocol specification"),
       Blank,
       Line("export interface ProtocolTypeInfo {"),
       Line("  type: string;"),
       Line("  data: any[];"),
       Line("}"),
       Blank,
       Line("export interface EventType {"),
       Line("  typeId: number;"),
       Line("  name: string;"),
       Line("}"),
       Blank,
       Line("// Protocol type information array"),
       Line("export const protocolTypeinfos: ProtocolTypeInfo[] = [") >>

\* the annotation counts from one
ConsoleTypeinfoLine_OneBased(idx, type_name, type_data) ==
    LET formatted_data == Replace(PyStr(type_data), SQ, DQ)
    IN  <<"  { type: ", DQ>> \o type_name \o <<DQ, ", data: ">>
            \o formatted_data \o <<" }, // ">> \o IntToStr(idx + 1)

\* lines 65-66: one catalog entry, console mode
ConsoleTypeinfoLine(idx, type_name, type_data) ==
    LET formatted_data == Replace(PyStr(type_data), SQ, DQ)
    IN  <<"  { type: ", DQ>> \o type_name \o <<DQ, ", data: ">>
            \o formatted_data \o <<" }, // ">> \o IntToStr(idx)

\* lines 126-127: one catalog entry, file mode
FileTypeinfoLine(idx, type_name, type_data) ==
    LET formatted_data == Replace(PyStr(type_data), SQ, DQ)
    IN  <<"  { type: ", DQ>> \o type_name \o <<DQ, ", data: ">>
            \o formatted_data \o <<" }, // ">> \o IntToStr(idx)

\* lines 74, 81, 88: one dispatch-table entry, console mode
ConsoleEventLine(event_id, type_id, name) ==
    <<"  ">> \o IntToStr(event_id) \o <<": { typeId: ">> \o IntToStr(type_id)
            \o <<", name: ", DQ>> \o name \o <<DQ, " },">>

\* the key and the typeId change places
FileEventLine_Swapped(event_id, type_id, name) ==
    <<"  ">> \o IntToStr(type_id) \o <<": { typeId: ">> \o IntToStr(event_id)
            \o <<", name: ", DQ>> \o name \o <<DQ, " },">>

\* lines 134, 139, 144: one dispatch-table entry, file mode
FileEventLine(event_id, type_id, name) ==
    <<"  ">> \o IntToStr(event_id) \o <<": { typeId: ">> \o IntToStr(type_id)
            \o <<", name: ", DQ>> \o name \o <<DQ, " },">>

\* the game table is declared under the name of the message table
ConsoleGameDecl_AsMessage ==
    Line("export const messageEventTypes: Record<number, { typeId: number; name: string }> = {")

ConsoleGameDecl ==
    Line("export const gameEventTypes: Record<number, { typeId: number; name: string }> = {")
ConsoleMessageDecl ==
    Line("export const messageEventTypes: Record<number, { typeId: number; name: string }> = {")
ConsoleTrackerDecl ==
    Line("export const trackerEventTypes: Record<number, { typeId: number; name: string }> = {")
FileGameDecl ==
    Line("export const gameEventTypes: Record<number, EventType> = {")
FileMessageDecl ==
    Line("export const messageEventTypes: Record<number, EventType> = {")
FileTrackerDecl ==
    Line("export const trackerEventTypes: Record<number, EventType> = {")

\* lines 68 and 129: the end of the catalog literal
CatalogClose == Line("];")

\* the literal is closed as if it were nested in another one
TableClose_Comma == Line("},")

\* lines 75, 82, 89 and 135, 140, 145: the end of a dispatch-table literal
TableClose == Line("};")

ConstComment == Line("// Important protocol type IDs")

\* the eight module globals, in the order of their definition in the header
ConstNames ==
    << "game_eventid_typeid", "message_eventid_typeid", "tracker_eventid_typeid",
       "svaruint32_typeid", "replay_userid_typeid", "replay_header_typeid",
       "game_details_typeid", "replay_initdata_typeid" >>

ConstDecl(ident, value) ==
    <<"export const ", ident, " = ">> \o IntToStr(value) \o <<";">>

\* lines 94-101: (exported identifier, global read) of each print, in order
ConsoleConstPrints ==
    << <<"GAME_EVENTID_TYPEID", "game_eventid_typeid">>,
       <<"MESSAGE_EVENTID_TYPEID", "message_eventid_typeid">>,
       <<"TRACKER_EVENTID_TYPEID", "tracker_eventid_typeid">>,
       <<"SVARUINT32_TYPEID", "svaruint32_typeid">>,
       <<"REPLAY_USERID_TYPEID", "replay_userid_typeid">>,
       <<"REPLAY_HEADER_TYPEID", "replay_header_typeid">>,
       <<"GAME_DETAILS_TYPEID", "game_details_typeid">>,
       <<"REPLAY_INITDATA_TYPEID", "replay_initdata_typeid">> >>

\* two of the globals change places
FileConstTerms_Swapped ==
    << <<"GAME_EVENTID_TYPEID", "game_eventid_typeid">>,
       <<"MESSAGE_EVENTID_TYPEID", "message_eventid_typeid">>,
       <<"TRACKER_EVENTID_TYPEID", "tracker_eventid_typeid">>,
       <<"SVARUINT32_TYPEID", "svaruint32_typeid">>,
       <<"REPLAY_USERID_TYPEID", "replay_header_typeid">>,
       <<"REPLAY_HEADER_TYPEID", "replay_userid_typeid">>,
       <<"GAME_DETAILS_TYPEID", "game_details_typeid">>,
       <<"REPLAY_INITDATA_TYPEID", "replay_initdata_typeid">> >>

\* lines 149-156: (exported identifier, global read) of each term, in order
FileConstTerms ==
    << <<"GAME_EVENTID_TYPEID", "game_eventid_typeid">>,
       <<"MESSAGE_EVENTID_TYPEID", "message_eventid_typeid">>,
       <<"TRACKER_EVENTID_TYPEID", "tracker_eventid_typeid">>,
       <<"SVARUINT32_TYPEID", "svaruint32_typeid">>,
       <<"REPLAY_USERID_TYPEID", "replay_userid_typeid">>,
       <<"REPLAY_HEADER_TYPEID", "replay_header_typeid">>,
       <<"GAME_DETAILS_TYPEID", "game_details_typeid">>,
       <<"REPLAY_INITDATA_TYPEID", "replay_initdata_typeid">> >>

\* lines 158-174: the tail of the second string literal
FileHelpers ==
    << Blank,
       Line("// Helper functions for protocol parsing"),
       Line("export function getTypeInfo(typeId: number): ProtocolTypeInfo | undefined {"),
       Line("  return protocolTypeinfos[typeId];"),
       Line("}"),
       Blank,
       Line("export function getGameEventType(eventId: number): EventType | undefined {"),
       Line("  return gameEventTypes[eventId];"),
       Line("}"),
       Blank,
       Line("export function getMessageEventType(eventId: number): EventType | undefined {"),
       Line("  return messageEventTypes[eventId];"),
       Line("}"),
       Blank,
       Line("export function getTrackerEventType(eventId: number): EventType | undefined {"),
       Line("  return trackerEventTypes[eventId];"),
       Line("}") >>

SuccessMessage == Line("Generated protocol.ts file")

\* first constant whose global is unbound (0 when all are bound)
FirstUnbound(reads) ==
    IF \E k \in DOMAIN reads : reads[k][2] \in unbound
    THEN CHOOSE k \in DOMAIN reads :
            /\ reads[k][2] \in unbound
            /\ \A j \in 1..(k - 1) : reads[j][2] \notin unbound
    ELSE 0

ConstLines(reads, n) ==
    [k \in 1..n |-> ConstDecl(reads[k][1], constants[reads[k][2]])]

\* --------------------------------------------------------------- process
Raise(e) ==
    /\ pc' = "exit"
    /\ err' = e

\* what the run has emitted to its destination
Document == IF argv = "--generate-file" THEN disk.lines ELSE stdout

\* line 178-181: a new process is started with or without --generate-file
Launch(arg) ==
    /\ pc \in {"idle", "exit"}
    /\ runs < MaxRuns
    /\ runs' = runs + 1
    /\ argv' = arg
    /\ pc' = IF arg = "--generate-file" THEN "f_init" ELSE "c_head"
    /\ i' = 0
    /\ stdout' = <<>>
    /\ typescript_content' = <<>>
    /\ err' = "none"
    /\ disk0' = disk
    /\ lastOut' = IF pc = "exit" /\ err = "none"
                  THEN [lastOut EXCEPT ![argv] = Some(Document)]
                  ELSE lastOut
    /\ UNCHANGED <<descVars, disk>>

procVars == <<argv, disk0, lastOut, runs>>

\* ---------------------------------------- convert_typeinfos_to_typescript
\* lines 50-61
ConsoleHead ==
    /\ pc = "c_head"
    /\ stdout' = stdout \o ConsoleHeader
    /\ pc' = "c_typeinfos"
    /\ i' = 0
    /\ UNCHANGED <<descVars, procVars, typescript_content, err, disk>>

\* lines 63-66: one iteration of the catalog loop
ConsoleTypeinfos ==
    /\ pc = "c_typeinfos"
    /\ IF "typeinfos" \in unbound
       THEN Raise("NameError") /\ UNCHANGED <<i, stdout>>
       ELSE /\ i < Len(typeinfos)
            /\ LET entry == typeinfos[i + 1]
               IN  IF Len(entry) # 2
                   THEN Raise("ValueError") /\ UNCHANGED <<i, stdout>>
                   ELSE /\ stdout' = Append(stdout,
                                ConsoleTypeinfoLine(i, entry[1], entry[2]))
                        /\ i' = i + 1
                        /\ UNCHANGED <<pc, err>>
    /\ UNCHANGED <<descVars, procVars, typescript_content, disk>>

\* lines 68-72: the catalog loop is exhausted
ConsoleTypeinfosEnd ==
    /\ pc = "c_typeinfos"
    /\ "typeinfos" \notin unbound
    /\ i = Len(typeinfos)
    /\ stdout' = stdout \o <<CatalogClose, Blank, ConsoleGameDecl>>
    /\ pc' = "c_game"
    /\ i' = 0
    /\ UNCHANGED <<descVars, procVars, typescript_content, err, disk>>

\* lines 73-74: one iteration of the game event loop
ConsoleGame ==
    /\ pc = "c_game"
    /\ IF "game_event_types" \in unbound
       THEN Raise("NameError") /\ UNCHANGED <<i, stdout>>
       ELSE /\ i < Len(game_event_types)
            /\ LET event_id == game_event_types[i + 1][1]
                   value == game_event_types[i + 1][2]
               IN  IF Len(value) # 2
                   THEN Raise("ValueError") /\ UNCHANGED <<i, stdout>>
                   ELSE /\ stdout' = Append(stdout,
                                ConsoleEventLine(event_id, value[1], value[2]))
                        /\ i' = i + 1
                        /\ UNCHANGED <<pc, err>>
    /\ UNCHANGED <<descVars, procVars, typescript_content, disk>>

\* lines 75-79
ConsoleGameEnd ==
    /\ pc = "c_game"
    /\ "game_event_types" \notin unbound
    /\ i = Len(game_event_types)
    /\ stdout' = stdout \o <<TableClose, Blank, ConsoleMessageDecl>>
    /\ pc' = "c_message"
    /\ i' = 0
    /\ UNCHANGED <<descVars, procVars, typescript_content, err, disk>>

\* lines 80-81: one iteration of the message event loop
ConsoleMessage ==
    /\ pc = "c_message"
    /\ IF "message_event_types" \in unbound
       THEN Raise("NameError") /\ UNCHANGED <<i, stdout>>
       ELSE /\ i < Len(message_event_types)
            /\ LET event_id == message_event_types[i + 1][1]
                   value == message_event_types[i + 1][2]
               IN  IF Len(value) # 2
                   THEN Raise("ValueError") /\ UNCHANGED <<i, stdout>>
                   ELSE /\ stdout' = Append(stdout,
                                ConsoleEventLine(event_id, value[1], value[2]))
                        /\ i' = i + 1
                        /\ UNCHANGED <<pc, err>>
    /\ UNCHANGED <<descVars, procVars, typescript_content, disk>>

\* lines 82-86
ConsoleMessageEnd ==
    /\ pc = "c_message"
    /\ "message_event_types" \notin unbound
    /\ i = Len(message_event_types)
    /\ stdout' = stdout \o <<TableClose, Blank, ConsoleTrackerDecl>>
    /\ pc' = "c_tracker"
    /\ i' = 0
    /\ UNCHANGED <<descVars, procVars, typescript_content, err, disk>>

\* lines 87-88: one iteration of the tracker event loop
ConsoleTracker ==
    /\ pc = "c_tracker"
    /\ IF "tracker_event_types" \in unbound
       THEN Raise("NameError") /\ UNCHANGED <<i, stdout>>
       ELSE /\ i < Len(tracker_event_types)
            /\ LET event_id == tracker_event_types[i + 1][1]
                   value == tracker_event_types[i + 1][2]
               IN  IF Len(value) # 2
                   THEN Raise("ValueError") /\ UNCHANGED <<i, stdout>>
                   ELSE /\ stdout' = Append(stdout,
                                ConsoleEventLine(event_id, value[1], value[2]))
                        /\ i' = i + 1
                        /\ UNCHANGED <<pc, err>>
    /\ UNCHANGED <<descVars, procVars, typescript_content, disk>>

\* lines 89-101: the tracker loop is exhausted; the constants are printed one
\* print at a time, so an unbound global stops the output after the prints
\* before it.
ConsoleConsts ==
    /\ pc = "c_tracker"
    /\ "tracker_event_types" \notin unbound
    /\ i = Len(tracker_event_types)
    /\ LET bad == FirstUnbound(ConsoleConstPrints)
           n == IF bad = 0 THEN Len(ConsoleConstPrints) ELSE bad - 1
       IN  /\ stdout' = stdout \o <<TableClose, Blank, ConstComment>>
                               \o ConstLines(ConsoleConstPrints, n)
           /\ err' = IF bad = 0 THEN "none" ELSE "NameError"
    /\ pc' = "exit"
    /\ UNCHANGED <<descVars, procVars, i, typescript_content, disk>>

\* --------------------------------------- generate_typescript_protocol_file
\* lines 107-122
FileInit ==
    /\ pc = "f_init"
    /\ typescript_content' = FileHeader
    /\ pc' = "f_typeinfos"
    /\ i' = 0
    /\ UNCHANGED <<descVars, procVars, stdout, err, disk>>

\* lines 125-127: one iteration of the catalog loop
FileTypeinfos ==
    /\ pc = "f_typeinfos"
    /\ IF "typeinfos" \in unbound
       THEN Raise("NameError") /\ UNCHANGED <<i, typescript_content>>
       ELSE /\ i < Len(typeinfos)
            /\ LET entry == typeinfos[i + 1]
               IN  IF Len(entry) # 2
                   THEN Raise("ValueError") /\ UNCHANGED <<i, typescript_content>>
                   ELSE /\ typescript_content' = Append(typescript_content,
                                FileTypeinfoLine(i, entry[1], entry[2]))
                        /\ i' = i + 1
                        /\ UNCHANGED <<pc, err>>
    /\ UNCHANGED <<descVars, procVars, stdout, disk>>

\* lines 129-132
FileTypeinfosEnd ==
    /\ pc = "f_typeinfos"
    /\ "typeinfos" \notin unbound
    /\ i = Len(typeinfos)
    /\ typescript_content' =
            typescript_content \o <<CatalogClose, Blank, FileGameDecl>>
    /\ pc' = "f_game"
    /\ i' = 0
    /\ UNCHANGED <<descVars, procVars, stdout, err, disk>>

\* lines 133-134: one iteration of the game event loop
FileGame ==
    /\ pc = "f_game"
    /\ IF "game_event_types" \in unbound
       THEN Raise("NameError") /\ UNCHANGED <<i, typescript_content>>
       ELSE /\ i < Len(game_event_types)
            /\ LET event_id == game_event_types[i + 1][1]
                   value == game_event_types[i + 1][2]
               IN  IF Len(value) # 2
                   THEN Raise("ValueError") /\ UNCHANGED <<i, typescript_content>>
                   ELSE /\ typescript_content' = Append(typescript_content,
                                FileEventLine(event_id, value[1], value[2]))
                        /\ i' = i + 1
                        /\ UNCHANGED <<pc, err>>
    /\ UNCHANGED <<descVars, procVars, stdout, disk>>

\* lines 135-137
FileGameEnd ==
    /\ pc = "f_game"
    /\ "game_event_types" \notin unbound
    /\ i = Len(game_event_types)
    /\ typescript_content' =
            typescript_content \o <<TableClose, Blank, FileMessageDecl>>
    /\ pc' = "f_message"
    /\ i' = 0
    /\ UNCHANGED <<descVars, procVars, stdout, err, disk>>

\* lines 138-139: one iteration of the message event loop
FileMessage ==
    /\ pc = "f_message"
    /\ IF "message_event_types" \in unbound
       THEN Raise("NameError") /\ UNCHANGED <<i, typescript_content>>
       ELSE /\ i < Len(message_event_types)
            /\ LET event_id == message_event_types[i + 1][1]
                   value == message_event_types[i + 1][2]
               IN  IF Len(value) # 2
                   THEN Raise("ValueError") /\ UNCHANGED <<i, typescript_content>>
                   ELSE /\ typescript_content' = Append(typescript_content,
                                FileEventLine(event_id, value[1], value[2]))
                        /\ i' = i + 1
                        /\ UNCHANGED <<pc, err>>
    /\ UNCHANGED <<descVars, procVars, stdout, disk>>

\* lines 140-142
FileMessageEnd ==
    /\ pc = "f_message"
    /\ "message_event_types" \notin unbound
    /\ i = Len(message_event_types)
    /\ typescript_content' =
            typescript_content \o <<TableClose, Blank, FileTrackerDecl>>
    /\ pc' = "f_tracker"
    /\ i' = 0
    /\ UNCHANGED <<descVars, procVars, stdout, err, disk>>

\* lines 143-144: one iteration of the tracker event loop
FileTracker ==
    /\ pc = "f_tracker"
    /\ IF "tracker_event_types" \in unbound
       THEN Raise("NameError") /\ UNCHANGED <<i, typescript_content>>
       ELSE /\ i < Len(tracker_event_types)
            /\ LET event_id == tracker_event_types[i + 1][1]
                   value == tracker_event_types[i + 1][2]
               IN  IF Len(value) # 2
                   THEN Raise("ValueError") /\ UNCHANGED <<i, typescript_content>>
                   ELSE /\ typescript_content' = Append(typescript_content,
                                FileEventLine(event_id, value[1], value[2]))
                        /\ i' = i + 1
                        /\ UNCHANGED <<pc, err>>
    /\ UNCHANGED <<descVars, procVars, stdout, disk>>

\* lines 145-176: the tracker loop is exhausted; the constants and the helper
\* functions are one concatenation, evaluated before the assignment, so an
\* unbound global leaves typescript_content as it was.
FileConsts ==
    /\ pc = "f_tracker"
    /\ "tracker_event_types" \notin unbound
    /\ i = Len(tracker_event_types)
    /\ IF FirstUnbound(FileConstTerms) # 0
       THEN /\ typescript_content' = typescript_content \o <<TableClose, Blank>>
            /\ Raise("NameError")
       ELSE /\ typescript_content' =
                    typescript_content \o <<TableClose, Blank, ConstComment>>
                        \o ConstLines(FileConstTerms, Len(FileConstTerms))
                        \o FileHelpers
            /\ pc' = "f_open"
            /\ err' = err
    /\ UNCHANGED <<descVars, procVars, i, stdout, disk>>

\* ------------------------------------------------------------- __main__
\* the file is opened for appending
OpenTruncate_Append(old) == File(old.lines)

\* line 184, open("protocol.ts", "w"): the file is created, or emptied
OpenTruncate(old) == File(<<>>)

\* line 184: the open succeeds, or raises and leaves the file alone

FileOpen ==
    /\ pc = "f_open"
    /\ \/ /\ disk' = OpenTruncate(disk)
          /\ pc' = "f_write"
          /\ err' = err
       \/ /\ disk' = disk
          /\ Raise("OSError")
    /\ UNCHANGED <<descVars, procVars, i, stdout, typescript_content>>

\* how much of the content has reached the file when a write or the closing
\* flush raises
PartialLengths(content) == {0, Len(content) \div 2}

\* lines 184-185, f.write(content) and the close of the with block
FileWrite ==
    /\ pc = "f_write"
    /\ \/ /\ disk' = File(disk.lines \o typescript_content)
          /\ pc' = "f_report"
          /\ err' = err
       \/ \E n \in PartialLengths(typescript_content) :
            /\ disk' = File(disk.lines \o SubSeq(typescript_content, 1, n))
            /\ Raise("OSError")
    /\ UNCHANGED <<descVars, procVars, i, stdout, typescript_content>>

\* line 186
FileReport ==
    /\ pc = "f_report"
    /\ stdout' = Append(stdout, SuccessMessage)
    /\ pc' = "exit"
    /\ UNCHANGED <<descVars, procVars, i, typescript_content, err, disk>>

\* ------------------------------------------------------------ descriptors
\* strings a descriptor may hold: plain, with a ', with a ", with both, and
\* with a backslash
Names ==
    { <<"a">>, <<"a", SQ>>, <<DQ, "b">>, <<SQ, DQ>>, <<"a", BS>> }

PlainEntries ==
    { << <<"_", "i">>, PyList(<<PyTuple(<<PyInt(0), PyInt(7)>>)>>) >>,
      << <<"_", "b">>, PyList(<<>>) >>,
      << <<"_", "s">>, PyTuple(<<PyStrV(<<"a">>)>>) >> }

\* entries that are not (type_name, type_data) pairs
BadEntries ==
    { << <<"_", "i">> >>,
      << <<"_", "i">>, PyList(<<>>), PyList(<<>>) >> }

Entries ==
    {<<n, PyList(<<PyStrV(n), PyInt(12)>>)>> : n \in Names}
        \cup PlainEntries \cup BadEntries

RECURSIVE SeqsUpTo(_, _)
SeqsUpTo(S, n) ==
    IF n = 0 THEN {<<>>}
    ELSE LET shorter == SeqsUpTo(S, n - 1)
         IN  shorter \cup {Append(q, x) : q \in shorter, x \in S}

Catalogs == SeqsUpTo(Entries, MaxCatalog)

EventIds == {0, 5, 12}

\* dict values: (type_id, name) pairs, and one that is not a pair
TableValues ==
    { <<3, <<"a">>>>, <<3, <<DQ, "b">>>>, <<45, <<"a", SQ>>>>, <<3>> }

Distinct(q) == \A j, k \in DOMAIN q : j # k => q[j] # q[k]

\* the items() of a dict: keys are distinct, the order is the insertion order
Tables ==
    { t \in SeqsUpTo(EventIds \X TableValues, MaxTable) :
        Distinct([k \in DOMAIN t |-> t[k][1]]) }

\* the values of the commented-out header, lines 10-43
ReferenceConstants ==
    [ game_eventid_typeid |-> 0, message_eventid_typeid |-> 1,
      tracker_eventid_typeid |-> 2, svaruint32_typeid |-> 7,
      replay_userid_typeid |-> 8, replay_header_typeid |-> 18,
      game_details_typeid |-> 40, replay_initdata_typeid |-> 73 ]

ConstantChoices ==
    { ReferenceConstants,
      [ game_eventid_typeid |-> 73, message_eventid_typeid |-> 40,
        tracker_eventid_typeid |-> 18, svaruint32_typeid |-> 8,
        replay_userid_typeid |-> 7, replay_header_typeid |-> 2,
        game_details_typeid |-> 1, replay_initdata_typeid |-> 0 ],
      [ game_eventid_typeid |-> 105, message_eventid_typeid |-> -1,
        tracker_eventid_typeid |-> 0, svaruint32_typeid |-> 0,
        replay_userid_typeid |-> 9, replay_header_typeid |-> 10,
        game_details_typeid |-> 2047, replay_initdata_typeid |-> 3 ] }

AllGlobals ==
    {"typeinfos", "game_event_types", "message_event_types",
     "tracker_event_types"} \cup {ConstNames[k] : k \in DOMAIN ConstNames}

\* the script as committed has every binding commented out (lines 1-45); the
\* other choices are a descriptor pasted in whole or with a binding left out
UnboundChoices ==
    { AllGlobals, {"message_event_types"}, {"tracker_event_types"},
      {"replay_header_typeid"}, {"game_event_types", "game_eventid_typeid"} }

RefCatalog == << << <<"_", "i">>, PyList(<<PyTuple(<<PyInt(0), PyInt(7)>>)>>) >> >>
RefGame == << <<0, <<3, <<"a">>>>>> >>
RefMessage == << <<0, <<45, <<"b">>>>>>, <<1, <<46, <<"c">>>>>> >>
RefTracker == << <<5, <<9, <<"d">>>>>> >>

DescriptorOK ==
    \/ \* the catalog varies
       /\ typeinfos \in Catalogs
       /\ game_event_types = RefGame
       /\ message_event_types = RefMessage
       /\ tracker_event_types = RefTracker
       /\ constants = ReferenceConstants
       /\ unbound = {}
    \/ \* one dispatch table varies
       /\ typeinfos = RefCatalog
       /\ \E t \in Tables :
            \/ /\ game_event_types = t
               /\ message_event_types = RefMessage
               /\ tracker_event_types = RefTracker
            \/ /\ game_event_types = RefGame
               /\ message_event_types = t
               /\ tracker_event_types = RefTracker
            \/ /\ game_event_types = RefGame
               /\ message_event_types = RefMessage
               /\ tracker_event_types = t
       /\ constants = ReferenceConstants
       /\ unbound = {}
    \/ \* the constants and the bindings vary; empty catalog and tables
       /\ typeinfos \in {<<>>, RefCatalog}
       /\ \/ /\ game_event_types = <<>>
             /\ message_event_types = <<>>
             /\ tracker_event_types = <<>>
          \/ /\ game_event_types = RefGame
             /\ message_event_types = RefMessage
             /\ tracker_event_types = RefTracker
       /\ constants \in ConstantChoices
       /\ unbound \in UnboundChoices \cup {{}}

OldFile == File(<<Line("// an earlier protocol.ts")>>)

Init ==
    /\ DescriptorOK
    /\ argv = ""
    /\ pc = "idle"
    /\ i = 0
    /\ stdout = <<>>
    /\ typescript_content = <<>>
    /\ err = "none"
    /\ disk \in {Absent, OldFile}
    /\ disk0 = disk
    /\ lastOut = [m \in Modes |-> None]
    /\ runs = 0

Next ==
    \/ \E arg \in Modes : Launch(arg)
    \/ ConsoleHead
    \/ ConsoleTypeinfos
    \/ ConsoleTypeinfosEnd
    \/ ConsoleGame
    \/ ConsoleGameEnd
    \/ ConsoleMessage
    \/ ConsoleMessageEnd
    \/ ConsoleTracker
    \/ ConsoleConsts
    \/ FileInit
    \/ FileTypeinfos
    \/ FileTypeinfosEnd
    \/ FileGame
    \/ FileGameEnd
    \/ FileMessage
    \/ FileMessageEnd
    \/ FileTracker
    \/ FileConsts
    \/ FileOpen
    \/ FileWrite
    \/ FileReport

Spec == Init /\ [][Next]_vars

\* ------------------------------------------------------- TypeScript side
\* The string literals of one line of TypeScript source, read by the
\* language's rules: a literal opens at " or ' and closes at the same
\* character; a backslash takes the next character literally (the escapes
\* that occur here are of quotes and of the backslash); a line comment ends
\* the scan; a literal still open at the end of the line is an error.
LineComment == {" }, // "}

RECURSIVE Lex(_, _, _, _, _)
Lex(line, p, q, cur, acc) ==
    IF p > Len(line) THEN [ok |-> q = "", strings |-> acc]
    ELSE LET c == line[p]
         IN  IF q = ""
             THEN IF c \in {DQ, SQ} THEN Lex(line, p + 1, c, <<>>, acc)
                  ELSE IF c \in LineComment THEN [ok |-> TRUE, strings |-> acc]
                  ELSE Lex(line, p + 1, q, cur, acc)
             ELSE IF c = BS
                  THEN IF p = Len(line) THEN [ok |-> FALSE, strings |-> acc]
                       ELSE Lex(line, p + 2, q, Append(cur, line[p + 1]), acc)
                  ELSE IF c = q THEN Lex(line, p + 1, "", <<>>, Append(acc, cur))
                  ELSE Lex(line, p + 1, q, Append(cur, c), acc)

TSStrings(line) == Lex(line, 1, "", <<>>, <<>>)

\* a numeric literal read back as a number
NotANumber == 0 - 1000000

DigitValue(c) ==
    IF \E d \in 1..10 : DigitChar[d] = c
    THEN (CHOOSE d \in 1..10 : DigitChar[d] = c) - 1
    ELSE NotANumber

RECURSIVE NatValue(_)
NatValue(ds) ==
    IF ds = <<>> THEN NotANumber
    ELSE LET last == DigitValue(ds[Len(ds)])
             front == SubSeq(ds, 1, Len(ds) - 1)
         IN  IF last = NotANumber THEN NotANumber
             ELSE IF front = <<>> THEN last
             ELSE IF NatValue(front) = NotANumber THEN NotANumber
             ELSE NatValue(front) * 10 + last

NumberValue(ds) ==
    IF ds # <<>> /\ ds[1] = "-"
    THEN IF NatValue(Tail(ds)) = NotANumber THEN NotANumber
         ELSE 0 - NatValue(Tail(ds))
    ELSE NatValue(ds)

\* position of the first token t in a line (0 when there is none)
IndexOf(line, t) ==
    IF \E k \in DOMAIN line : line[k] = t
    THEN CHOOSE k \in DOMAIN line :
            line[k] = t /\ \A j \in 1..(k - 1) : line[j] # t
    ELSE 0

\* the tokens strictly between the fragments a and b of a line
Between(line, a, b) == SubSeq(line, IndexOf(line, a) + 1, IndexOf(line, b) - 1)

After(line, a) == SubSeq(line, IndexOf(line, a) + 1, Len(line))

\* positions of a line in a document, and the first one after position a
Positions(doc, l) == {k \in DOMAIN doc : doc[k] = l}
Position(doc, l) == IF Positions(doc, l) = {} THEN 0 ELSE CHOOSE k \in Positions(doc, l) : TRUE

FirstAfter(doc, a, l) ==
    IF \E k \in DOMAIN doc : k > a /\ doc[k] = l
    THEN CHOOSE k \in DOMAIN doc :
            k > a /\ doc[k] = l /\ \A j \in (a + 1)..(k - 1) : doc[j] # l
    ELSE 0

\* the lines strictly between an opening line and the first closing line
\* after it
Body(doc, open, close) ==
    LET a == Position(doc, open)
        b == FirstAfter(doc, a, close)
    IN  SubSeq(doc, a + 1, b - 1)

Completed == pc = "exit" /\ err = "none"

CatalogOpen == Line("export const protocolTypeinfos: ProtocolTypeInfo[] = [")

\* the strings of a Python value, in the order they are written
RECURSIVE StringsIn(_)
StringsIn(x) ==
    CASE x.k = "int" -> <<>>
      [] x.k = "str" -> <<x.v>>
      [] OTHER -> Concat([k \in DOMAIN x.v |-> StringsIn(x.v[k])])

\* ------------------------------------------------------------------ claims
CatalogBody(doc) == Body(doc, CatalogOpen, Line("];"))

\* C1: a completed run of either mode has emitted, between the opening line
\* of the catalog and its closing line, exactly one line per catalog entry,
\* in the order of the input (the i-th line carries the kind name and the
\* data of the i-th entry), and the annotation of the i-th line, counting
\* from zero, reads back as i.
C1_IndexFidelity ==
    Completed =>
        LET body == CatalogBody(Document)
        IN  /\ Cardinality(Positions(Document, CatalogOpen)) = 1
            /\ Len(body) = Len(typeinfos)
            /\ \A j \in DOMAIN body :
                /\ NumberValue(After(body[j], " }, // ")) = j - 1
                /\ SubSeq(body[j], 3, IndexOf(body[j], ", data: ") - 2)
                        = typeinfos[j][1]
                /\ Between(body[j], ", data: ", " }, // ")
                        = Replace(PyStr(typeinfos[j][2]), SQ, DQ)

C1_Witness ==
    /\ Completed
    /\ Len(typeinfos) >= 2
    /\ typeinfos[1] # typeinfos[2]
    /\ argv = ""

\* the opening line of each dispatch-table literal, in either mode
GameOpens ==
    { Line("export const gameEventTypes: Record<number, { typeId: number; name: string }> = {"),
      Line("export const gameEventTypes: Record<number, EventType> = {") }
MessageOpens ==
    { Line("export const messageEventTypes: Record<number, { typeId: number; name: string }> = {"),
      Line("export const messageEventTypes: Record<number, EventType> = {") }
TrackerOpens ==
    { Line("export const trackerEventTypes: Record<number, { typeId: number; name: string }> = {"),
      Line("export const trackerEventTypes: Record<number, EventType> = {") }

PositionsIn(doc, ls) == {k \in DOMAIN doc : doc[k] \in ls}

\* the entry lines of the literal that one of the opening lines starts
TableBody(doc, opens) ==
    LET a == IF PositionsIn(doc, opens) = {} THEN 0
             ELSE CHOOSE k \in PositionsIn(doc, opens) : TRUE
        b == FirstAfter(doc, a, Line("};"))
    IN  SubSeq(doc, a + 1, b - 1)

\* an entry line read back as TypeScript: the key, the typeId, and the name
\* as the string literal of the line
ReadEntry(line) ==
    LET lit == TSStrings(line)
    IN  [ key |-> NumberValue(Between(line, "  ", ": { typeId: ")),
          typeId |-> NumberValue(Between(line, ": { typeId: ", ", name: ")),
          wellFormed |-> lit.ok /\ Len(lit.strings) = 1,
          name |-> IF lit.strings = <<>> THEN <<>> ELSE lit.strings[1] ]

\* the literal of one table holds exactly the pairs of that table
Encodes(body, table) ==
    /\ Len(body) = Len(table)
    /\ \A j \in DOMAIN body :
        LET e == ReadEntry(body[j])
        IN  /\ e.wellFormed
            /\ e.key = table[j][1]
            /\ e.typeId = table[j][2][1]
            /\ e.name = table[j][2][2]

\* C2: after a completed run of either mode, the mapping literal of each of
\* the three dispatch tables holds, for every pair eventId -> (typeId, name)
\* of that table and for no other, one entry whose key reads back as eventId
\* and whose value reads back as the same typeId and the same name.
C2_DispatchRoundTrip ==
    Completed =>
        /\ Encodes(TableBody(Document, GameOpens), game_event_types)
        /\ Encodes(TableBody(Document, MessageOpens), message_event_types)
        /\ Encodes(TableBody(Document, TrackerOpens), tracker_event_types)

\* C3: after a completed run of either mode, the string literals of every
\* catalog entry line read back, by TypeScript's rules, as the kind name
\* followed by the strings nested in the entry's data, and the string
\* literal of every dispatch-table line reads back as the event name.
ReadsBackAs(line, strings) ==
    /\ TSStrings(line).ok
    /\ TSStrings(line).strings = strings

TableQuoteSafe(body, table) ==
    /\ Len(body) = Len(table)
    /\ \A j \in DOMAIN body : ReadsBackAs(body[j], <<table[j][2][2]>>)

C3_QuoteSafety ==
    Completed =>
        /\ Len(CatalogBody(Document)) = Len(typeinfos)
        /\ \A j \in DOMAIN typeinfos :
                ReadsBackAs(CatalogBody(Document)[j],
                            <<typeinfos[j][1]>> \o StringsIn(typeinfos[j][2]))
        /\ TableQuoteSafe(TableBody(Document, GameOpens), game_event_types)
        /\ TableQuoteSafe(TableBody(Document, MessageOpens), message_event_types)
        /\ TableQuoteSafe(TableBody(Document, TrackerOpens), tracker_event_types)

\* the exported identifier of each constant and the global it is bound to
ExpectedConstants ==
    << <<"GAME_EVENTID_TYPEID", "game_eventid_typeid">>,
       <<"MESSAGE_EVENTID_TYPEID", "message_eventid_typeid">>,
       <<"TRACKER_EVENTID_TYPEID", "tracker_eventid_typeid">>,
       <<"SVARUINT32_TYPEID", "svaruint32_typeid">>,
       <<"REPLAY_USERID_TYPEID", "replay_userid_typeid">>,
       <<"REPLAY_HEADER_TYPEID", "replay_header_typeid">>,
       <<"GAME_DETAILS_TYPEID", "game_details_typeid">>,
       <<"REPLAY_INITDATA_TYPEID", "replay_initdata_typeid">> >>

IsConstDecl(line) == Len(line) >= 3 /\ line[1] = "export const "

ConstDeclsOf(doc) == SelectSeq(doc, IsConstDecl)

\* C4: a completed run of either mode has emitted exactly eight constant
\* declarations, in the order GAME_EVENTID_TYPEID .. REPLAY_INITDATA_TYPEID,
\* and the value of each reads back as the value of its own global; with the
\* reference values they read 0, 1, 2, 7, 8, 18, 40, 73.
C4_ConstantFidelity ==
    Completed =>
        LET decls == ConstDeclsOf(Document)
        IN  /\ Len(decls) = 8
            /\ \A k \in DOMAIN decls :
                /\ decls[k][2] = ExpectedConstants[k][1]
                /\ decls[k][3] = " = "
                /\ decls[k][Len(decls[k])] = ";"
                /\ NumberValue(SubSeq(decls[k], 4, Len(decls[k]) - 1))
                        = constants[ExpectedConstants[k][2]]
            /\ constants = ReferenceConstants =>
                [k \in DOMAIN decls |->
                    NumberValue(SubSeq(decls[k], 4, Len(decls[k]) - 1))]
                        = <<0, 1, 2, 7, 8, 18, 40, 73>>

C4_Witness ==
    /\ Completed
    /\ argv = "--generate-file"
    /\ constants # ReferenceConstants
    /\ constants["message_eventid_typeid"] < 0

NoticeLines ==
    { Line("// Generated TypeScript protocol definitions"),
      Line("// Auto-generated TypeScript protocol definitions") }

TypeDeclLine == Line("export interface ProtocolTypeInfo {")

AccessorLines ==
    << Line("export function getTypeInfo(typeId: number): ProtocolTypeInfo | undefined {"),
       Line("export function getGameEventType(eventId: number): EventType | undefined {"),
       Line("export function getMessageEventType(eventId: number): EventType | undefined {"),
       Line("export function getTrackerEventType(eventId: number): EventType | undefined {") >>

Once(doc, ls) == Cardinality(PositionsIn(doc, ls)) = 1
The(doc, ls) == CHOOSE k \in PositionsIn(doc, ls) : TRUE
ConstPositions(doc) == {k \in DOMAIN doc : IsConstDecl(doc[k])}

\* C5: the document of a completed run holds, each exactly once and in this
\* order, the notice, the ProtocolTypeInfo declaration, the catalog
\* declaration, the gameEventTypes, messageEventTypes and trackerEventTypes
\* declarations, and then the eight constant declarations; in file mode the
\* four accessor functions follow the constants in the order getTypeInfo,
\* getGameEventType, getMessageEventType, getTrackerEventType, and in
\* console mode there is none of them.
C5_SectionOrder ==
    Completed =>
        LET doc == Document
        IN  /\ Once(doc, NoticeLines)
            /\ Once(doc, {TypeDeclLine})
            /\ Once(doc, {CatalogOpen})
            /\ Once(doc, GameOpens)
            /\ Once(doc, MessageOpens)
            /\ Once(doc, TrackerOpens)
            /\ The(doc, NoticeLines) = 1
            /\ The(doc, NoticeLines) < The(doc, {TypeDeclLine})
            /\ The(doc, {TypeDeclLine}) < The(doc, {CatalogOpen})
            /\ The(doc, {CatalogOpen}) < The(doc, GameOpens)
            /\ The(doc, GameOpens) < The(doc, MessageOpens)
            /\ The(doc, MessageOpens) < The(doc, TrackerOpens)
            /\ Cardinality(ConstPositions(doc)) = 8
            /\ \A k \in ConstPositions(doc) : The(doc, TrackerOpens) < k
            /\ IF argv = "--generate-file"
               THEN /\ \A a \in DOMAIN AccessorLines :
                        /\ Once(doc, {AccessorLines[a]})
                        /\ \A k \in ConstPositions(doc) :
                                k < The(doc, {AccessorLines[a]})
                    /\ \A a \in 1..(Len(AccessorLines) - 1) :
                        The(doc, {AccessorLines[a]})
                            < The(doc, {AccessorLines[a + 1]})
               ELSE \A a \in DOMAIN AccessorLines :
                        PositionsIn(doc, {AccessorLines[a]}) = {}

C5_Witness ==
    /\ Completed
    /\ argv = "--generate-file"
    /\ Len(typeinfos) >= 1
    /\ Len(message_event_types) >= 1

EmptyDescriptor ==
    /\ typeinfos = <<>>
    /\ game_event_types = <<>>
    /\ message_event_types = <<>>
    /\ tracker_event_types = <<>>
    /\ unbound = {}

ClosedAtOnce(doc, opens, close) ==
    /\ Once(doc, opens)
    /\ The(doc, opens) < Len(doc)
    /\ doc[The(doc, opens) + 1] = close

\* C6: with an empty catalog and three empty dispatch tables no run fails
\* while rendering, and the document of a completed run of either mode holds
\* the catalog's opening line directly followed by "];", the opening line of
\* each dispatch table directly followed by "};", and the declarations of
\* all eight constants.
C6_EmptyInput ==
    EmptyDescriptor =>
        /\ err \notin {"NameError", "ValueError"}
        /\ Completed =>
            /\ ClosedAtOnce(Document, {CatalogOpen}, Line("];"))
            /\ ClosedAtOnce(Document, GameOpens, Line("};"))
            /\ ClosedAtOnce(Document, MessageOpens, Line("};"))
            /\ ClosedAtOnce(Document, TrackerOpens, Line("};"))
            /\ [k \in DOMAIN ConstDeclsOf(Document) |-> ConstDeclsOf(Document)[k][2]]
                    = [k \in DOMAIN ExpectedConstants |-> ExpectedConstants[k][1]]

C6_Witness ==
    /\ EmptyDescriptor
    /\ Completed
    /\ argv = ""

RenderErrors == {"NameError", "ValueError"}

\* C7: when a run of either mode fails while rendering (an entry that is not
\* a pair, a binding that is missing), nothing has been printed to standard
\* output and protocol.ts is as it was when the run started.
C7_AllOrNothing ==
    err \in RenderErrors => (stdout = <<>> /\ disk = disk0)

\* C8: when a file-mode run fails on opening or writing protocol.ts, the file
\* is absent or holds what it held before the run; and the success message
\* has been printed only when the file holds the complete content.
C8_NoPartialFile ==
    /\ err = "OSError" => (~disk.present \/ disk = disk0)
    /\ (\E k \in DOMAIN stdout : stdout[k] = SuccessMessage)
            => disk = File(typescript_content)

\* C9: a completed run emits the same document as the last completed run of
\* the same mode on the same descriptor, whatever happened in between
\* (another run, a failed run, an earlier protocol.ts on disk).
C9_Determinism ==
    (Completed /\ lastOut[argv].have) => Document = lastOut[argv].lines

C9_Witness ==
    /\ Completed
    /\ argv = "--generate-file"
    /\ lastOut[argv].have
    /\ disk0.present
    /\ Len(typeinfos) >= 1

OtherMode == IF argv = "" THEN "--generate-file" ELSE ""
BothModesRan == Completed /\ lastOut[OtherMode].have
ConsoleText == IF argv = "" THEN stdout ELSE lastOut[""].lines
FileText == IF argv = "" THEN lastOut["--generate-file"].lines ELSE disk.lines

Max(S) == CHOOSE x \in S : \A y \in S : y <= x

\* a document up to and including its last constant declaration
WithoutAccessors(doc) == SubSeq(doc, 1, Max(ConstPositions(doc)))

\* C10 as stated: but for the accessor functions that file mode appends,
\* the two modes emit the same text, line for line.
C10_ModeEquivalence ==
    BothModesRan => WithoutAccessors(FileText) = ConsoleText

IsTableOpen(l) == l \in GameOpens \cup MessageOpens \cup TrackerOpens

\* the ProtocolTypeInfo declaration, and everything from the catalog
\* declaration to the last constant declaration but the opening lines of the
\* dispatch tables
SharedText(doc) ==
    SubSeq(doc, The(doc, {TypeDeclLine}), The(doc, {TypeDeclLine}) + 3)
        \o SelectSeq(SubSeq(doc, The(doc, {CatalogOpen}), Max(ConstPositions(doc))),
                     LAMBDA l : ~IsTableOpen(l))

\* C10 as amended: the two modes emit, line for line, the same
\* ProtocolTypeInfo declaration, the same catalog declaration with its entry
\* lines and closing line, the same entry lines and closing line of each
\* dispatch table, and the same eight constant declarations; the notice and
\* the opening lines of the dispatch tables differ.
C10_SharedText ==
    BothModesRan =>
        /\ SharedText(FileText) = SharedText(ConsoleText)
        /\ PositionsIn(FileText, NoticeLines) # {}
        /\ \A k \in DOMAIN FileText :
                (FileText[k] \in NoticeLines \/ IsTableOpen(FileText[k]))
                    => PositionsIn(ConsoleText, {FileText[k]}) = {}

C10_Witness ==
    /\ BothModesRan
    /\ argv = "--generate-file"
    /\ Len(typeinfos) >= 2
    /\ Len(tracker_event_types) >= 1

====
